---------------------------- MODULE Spec2Model ----------------------------
(***************************************************************************)
(* A model of src/routes/redaction_simple.py: the PII detector             *)
(* (PIIDetector.detect_pii), the redactor (DocumentProcessor.redact_txt /  *)
(* redact_docx) and the three request handlers that move files between     *)
(* the upload folder and the processed folder.                             *)
(*                                                                         *)
(* Text is a TLA+ string; offsets are 0-based as in Python, so the         *)
(* character at offset i of s is SubSeq(s, i+1, i+1).                      *)
(***************************************************************************)
EXTENDS Integers, Sequences, FiniteSets, TLC

VARIABLES
    text,          \* detect_pii: the text being scanned
    phoneRun,      \* detect_pii: what phonenumbers.PhoneNumberMatcher does on text
    pii_items,     \* detect_pii: the returned list
    dpc,           \* detect_pii: "call" before the call, "done" after it
    content,       \* redactor: the stored original (file text, or paragraphs)
    redaction_items, \* redactor: the literal list of the request
    output,        \* redactor: what was written to output_path
    kept,          \* redactor (history): the offsets of the original text whose
                   \* characters are carried into output (per paragraph for docx)
    rpc,           \* redactor: "call", "txt" (redact_txt ran), "docx" (redact_docx ran)
    uploads,       \* server: UPLOAD_FOLDER, stored filename -> file
    processed,     \* server: PROCESSED_FOLDER, filename -> [by, file]
    reqs,          \* server: number of requests handled so far
    last           \* server: the last request handled and its response

vars == <<text, phoneRun, pii_items, dpc, content, redaction_items, output, kept, rpc,
          uploads, processed, reqs, last>>

detectVars == <<text, phoneRun, pii_items, dpc>>
redactVars == <<content, redaction_items, output, kept, rpc>>
serverVars == <<uploads, processed, reqs, last>>

-----------------------------------------------------------------------------
(* Characters and strings                                                  *)

UpperStr == "ABCDEFGHIJKLMNOPQRSTUVWXYZ"
LowerStr == "abcdefghijklmnopqrstuvwxyz"
DigitStr == "0123456789"

CharsOf(s) == {SubSeq(s, i, i) : i \in 1..Len(s)}

Upper == CharsOf(UpperStr)
Lower == CharsOf(LowerStr)
Digit == CharsOf(DigitStr)
Space == {" ", "\t", "\n", "\r", "\f"}
Alnum == Upper \cup Lower \cup Digit
WordChars == Alnum \cup {"_"}

\* the character of s at 0-based offset i
Chr(s, i) == SubSeq(s, i + 1, i + 1)

\* s[a:b] of Python, 0 <= a <= b <= len(s)
Slice(s, a, b) == SubSeq(s, a + 1, b)

RECURSIVE Concat(_)
Concat(ss) == IF ss = <<>> THEN "" ELSE Head(ss) \o Concat(Tail(ss))

-----------------------------------------------------------------------------
(* Regular expressions: a backtracking matcher in the order of Python's re *)
(* (leftmost alternative first, greedy repetition).  Ends(re, s, i) is the *)
(* sequence of offsets at which a match of re that starts at offset i can  *)
(* end, in the order the engine tries them; the engine takes the first.    *)

Set(cs) == [t |-> "set", cs |-> cs]
WB == [t |-> "wb"]
Cat(a, b) == [t |-> "cat", a |-> a, b |-> b]
Alt(a, b) == [t |-> "alt", a |-> a, b |-> b]
Rep(r, lo, hi) == [t |-> "rep", r |-> r, lo |-> lo, hi |-> hi]
Eps == [t |-> "eps"]

\* hi < 0 stands for no upper limit ({n,} and +)
AtLeast(r, lo) == Rep(r, lo, -1)
Plus(r) == AtLeast(r, 1)
Times(r, n) == Rep(r, n, n)
Opt(r) == Rep(r, 0, 1)

RECURSIVE CatAll(_)
CatAll(rs) == IF rs = <<>> THEN Eps
              ELSE IF Len(rs) = 1 THEN rs[1] ELSE Cat(rs[1], CatAll(Tail(rs)))

RECURSIVE AltAll(_)
AltAll(rs) == IF Len(rs) = 1 THEN rs[1] ELSE Alt(rs[1], AltAll(Tail(rs)))

\* the other case of a letter, the letter itself for anything else
RECURSIVE SwapCase(_, _)
SwapCase(c, k) ==
    IF k > Len(UpperStr) THEN c
    ELSE IF c = SubSeq(UpperStr, k, k) THEN SubSeq(LowerStr, k, k)
    ELSE IF c = SubSeq(LowerStr, k, k) THEN SubSeq(UpperStr, k, k)
    ELSE SwapCase(c, k + 1)

\* a literal word; ic = TRUE under re.IGNORECASE
Lit(w, ic) ==
    CatAll([k \in 1..Len(w) |->
              LET c == SubSeq(w, k, k)
              IN  Set(IF ic THEN {c, SwapCase(c, 1)} ELSE {c})])

IsWordAt(s, i) == i >= 0 /\ i < Len(s) /\ Chr(s, i) \in WordChars

Max0(n) == IF n > 0 THEN n ELSE 0

RECURSIVE Ends(_, _, _)
RECURSIVE EndsFrom(_, _, _)
\* the ends of re from each offset of js in turn
EndsFrom(re, s, js) ==
    IF js = <<>> THEN <<>>
    ELSE Ends(re, s, Head(js)) \o EndsFrom(re, s, Tail(js))

Ends(re, s, i) ==
    CASE re.t = "eps" -> <<i>>
      [] re.t = "set" -> IF i < Len(s) /\ Chr(s, i) \in re.cs THEN <<i + 1>> ELSE <<>>
      [] re.t = "wb"  -> IF IsWordAt(s, i - 1) # IsWordAt(s, i) THEN <<i>> ELSE <<>>
      [] re.t = "cat" -> EndsFrom(re.b, s, Ends(re.a, s, i))
      [] re.t = "alt" -> Ends(re.a, s, i) \o Ends(re.b, s, i)
      [] re.t = "rep" ->
            LET body == IF re.hi = 0 THEN <<>> ELSE Ends(re.r, s, i)
                \* an iteration that consumed nothing is not repeated once the
                \* minimum count is reached
                go   == SelectSeq(body, LAMBDA j : j # i \/ re.lo > 0)
                less == IF re.hi < 0 THEN re.hi ELSE re.hi - 1
                more == EndsFrom(Rep(re.r, Max0(re.lo - 1), less), s, go)
            IN  more \o (IF re.lo = 0 THEN <<i>> ELSE <<>>)

\* pattern.match at offset i: the end of the match, or -1
MatchEnd(re, s, i) ==
    LET es == Ends(re, s, i) IN IF es = <<>> THEN -1 ELSE Head(es)

\* finditer resuming one character after the start of the previous match
RECURSIVE FindIterOverlapping(_, _, _)
FindIterOverlapping(re, s, pos) ==
    IF pos > Len(s) THEN <<>>
    ELSE LET e == MatchEnd(re, s, pos)
         IN  IF e < 0 THEN FindIterOverlapping(re, s, pos + 1)
             ELSE <<[start |-> pos, end |-> e]>>
                    \o FindIterOverlapping(re, s, pos + 1)

\* pattern.finditer(s): the matches [start, end), leftmost first, each search
\* resuming where the previous match ended
RECURSIVE FindIter(_, _, _)
FindIter(re, s, pos) ==
    IF pos > Len(s) THEN <<>>
    ELSE LET e == MatchEnd(re, s, pos)
         IN  IF e < 0 THEN FindIter(re, s, pos + 1)
             ELSE <<[start |-> pos, end |-> e]>>
                    \o FindIter(re, s, IF e = pos THEN e + 1 ELSE e)

-----------------------------------------------------------------------------
(* PIIDetector.__init__: the six compiled patterns                         *)

email_pattern ==
    CatAll(<<WB, Plus(Set(Alnum \cup {".", "_", "%", "+", "-"})), Set({"@"}),
             Plus(Set(Alnum \cup {".", "-"})), Set({"."}),
             AtLeast(Set(Upper \cup Lower \cup {"|"}), 2), WB>>)

ssn_pattern ==
    CatAll(<<WB, Times(Set(Digit), 3), Opt(Set({"-"})), Times(Set(Digit), 2),
             Opt(Set({"-"})), Times(Set(Digit), 4), WB>>)

credit_card_pattern ==
    CatAll(<<WB, Times(Cat(Times(Set(Digit), 4), Opt(Set({"-"} \cup Space))), 3),
             Times(Set(Digit), 4), WB>>)

date_pattern ==
    CatAll(<<WB, Rep(Set(Digit), 1, 2), Set({"/", "-"}), Rep(Set(Digit), 1, 2),
             Set({"/", "-"}), Rep(Set(Digit), 2, 4), WB>>)

iban_pattern ==
    CatAll(<<WB, Times(Set(Upper), 2), Times(Set(Digit), 2),
             Times(Set(Upper \cup Digit), 4), Times(Set(Digit), 7),
             Rep(Opt(Set(Upper \cup Digit)), 0, 16), WB>>)

StreetSuffixes ==
    <<"Street", "St", "Avenue", "Ave", "Road", "Rd", "Boulevard", "Blvd",
      "Lane", "Ln", "Drive", "Dr">>

address_pattern ==
    CatAll(<<WB, Plus(Set(Digit)), Plus(Set(Space)),
             Plus(Set(Upper \cup Lower \cup Space)),
             AltAll([k \in 1..Len(StreetSuffixes) |-> Lit(StreetSuffixes[k], TRUE)]),
             WB>>)

\* one pii_items entry
Item(type, s, m, confidence) ==
    [type |-> type, text |-> Slice(s, m.start, m.end), start |-> m.start,
     end |-> m.end, confidence |-> confidence]

\* the entries one regex category appends, in scan order
Scan(re, type, confidence, s) ==
    LET ms == FindIter(re, s, 0)
    IN  [k \in 1..Len(ms) |-> Item(type, s, ms[k], confidence)]

-----------------------------------------------------------------------------
(* phonenumbers.PhoneNumberMatcher(text, None) is a library outside the    *)
(* repository.  A run of it is [yielded, raised]: the matches it yields,   *)
(* in the order it yields them, and whether iterating it then raises.  The *)
(* library scans left to right and resumes after each match, so a run's    *)
(* matches are non-empty, increasing and disjoint; which ranges it accepts *)
(* is left open: any range from a digit, "+" or "(" that does not continue *)
(* a digit run, to a digit that is not followed by a digit.                *)

MaxPhoneMatches == 1

PhoneStarts(s) ==
    {i \in 0..(Len(s) - 1) :
        /\ Chr(s, i) \in Digit \cup {"+", "("}
        /\ ~(i > 0 /\ Chr(s, i - 1) \in Digit)}

PhoneEnds(s) ==
    {j \in 1..Len(s) :
        /\ Chr(s, j - 1) \in Digit
        /\ ~(j < Len(s) /\ Chr(s, j) \in Digit)}

PhoneRanges(s) ==
    {r \in [start : PhoneStarts(s), end : PhoneEnds(s)] : r.start < r.end}

\* the match sequences of at most n matches
RECURSIVE PhoneYields(_, _)
PhoneYields(s, n) ==
    IF n = 0 THEN {<<>>}
    ELSE LET shorter == PhoneYields(s, n - 1)
         IN  shorter \cup
             {Append(q, r) : <<q, r>> \in
                {qr \in shorter \X PhoneRanges(s) :
                    /\ Len(qr[1]) = n - 1
                    /\ (qr[1] = <<>> \/ qr[1][Len(qr[1])].end <= qr[2].start)}}

PhoneRuns(s) == [yielded : PhoneYields(s, MaxPhoneMatches), raised : BOOLEAN]

-----------------------------------------------------------------------------
(* PIIDetector.detect_pii                                                  *)

\* line 62-69: the entries appended before the iterator ends or raises; the
\* bare except of line 70 swallows the raise and keeps what was appended
PhoneItems(s, run) ==
    [k \in 1..Len(run.yielded) |-> Item("phone", s, run.yielded[k], "high")]

\* pii_items as line 122 leaves it: the categories in the order of the code
Pooled(s, run) ==
    Scan(email_pattern, "email", "high", s)
      \o PhoneItems(s, run)
      \o Scan(ssn_pattern, "ssn", "high", s)
      \o Scan(credit_card_pattern, "credit_card", "medium", s)
      \o Scan(date_pattern, "date", "low", s)
      \o Scan(iban_pattern, "iban", "high", s)
      \o Scan(address_pattern, "address", "medium", s)

\* x placed before the entries whose start is >= its own: a sort that is
\* not stable
RECURSIVE InsertBeforeEqual(_, _)
InsertBeforeEqual(x, sorted) ==
    IF sorted = <<>> THEN <<x>>
    ELSE IF x.start <= Head(sorted).start THEN <<x>> \o sorted
    ELSE <<Head(sorted)>> \o InsertBeforeEqual(x, Tail(sorted))

\* x placed after every entry whose start is <= its own
RECURSIVE InsertByStart(_, _)
InsertByStart(x, sorted) ==
    IF sorted = <<>> THEN <<x>>
    ELSE IF x.start < Head(sorted).start THEN <<x>> \o sorted
    ELSE <<Head(sorted)>> \o InsertByStart(x, Tail(sorted))

\* sorted(items, key=lambda x: x['start']): Python's sort is stable
RECURSIVE SortedByStart(_)
SortedByStart(items) ==
    IF items = <<>> THEN <<>>
    ELSE InsertByStart(items[Len(items)], SortedByStart(SubSeq(items, 1, Len(items) - 1)))

detect_pii(s, run) == SortedByStart(Pooled(s, run))

-----------------------------------------------------------------------------
(* The texts scanned: the fixed samples, and every concatenation of at     *)
(* most MaxTokens tokens.  The tokens are pieces of PII that combine into  *)
(* adjacent, tied and overlapping matches.                                 *)

MaxTokens == 2

Tokens == {"11-11-11", "-11", "@b.co", " 1-1-99"}

SampleTexts ==
    {"", "Contact me at jane.doe@example.com or 555-123-4567", "SSN: 123-45-6789",
     "12/31/2023 and 1-1-99", "1234 5678-90123456 x", "GB82WEST12345698765432",
     "AB12CDEF1234567@b.co", "12 Main street, 5 Oak Dr",
     "123-45-6789-1234-5678-9012", "1 StSt@b.St", "12 Main\nSt x@y.z|z",
     "123456789@b.co +1 2", "1-1-99 or 11-11-11@b.co"}

RECURSIVE TokenTexts(_)
TokenTexts(n) ==
    IF n = 0 THEN {""}
    ELSE LET shorter == TokenTexts(n - 1)
         IN  shorter \cup {t \o u : t \in shorter, u \in Tokens}

Texts == SampleTexts \cup TokenTexts(MaxTokens)

NoRun == [yielded |-> <<>>, raised |-> FALSE]

DetectInit ==
    /\ text \in Texts
    /\ phoneRun \in PhoneRuns(text)
    /\ pii_items = <<>>
    /\ dpc = "call"
    /\ content = <<>> /\ redaction_items = <<>> /\ output = <<>> /\ kept = {}
    /\ rpc = "idle"
    /\ uploads = <<>> /\ processed = <<>> /\ reqs = 0 /\ last = <<>>

\* one call detect_pii(text)
DetectPii ==
    /\ dpc = "call"
    /\ pii_items' = detect_pii(text, phoneRun)
    /\ dpc' = "done"
    /\ UNCHANGED <<text, phoneRun>>
    /\ UNCHANGED redactVars
    /\ UNCHANGED serverVars

DetectNext == DetectPii

SpecDetect == DetectInit /\ [][DetectNext]_vars

-----------------------------------------------------------------------------
(* Claims about detect_pii                                                 *)

Categories == <<"email", "phone", "ssn", "credit_card", "date", "iban", "address">>

\* the place of a category in the order the code runs them
CatRank(type) == CHOOSE k \in 1..Len(Categories) : Categories[k] = type

Overlap(a, b) == a.start < b.end /\ b.start < a.end

\* C1: the returned matches are in ascending order of start, and matches with
\* the same start keep their detection order (email, phone, ssn, credit_card,
\* date, iban, address).
C1_SortedStable ==
    dpc = "done" =>
        \A i, j \in 1..Len(pii_items) :
            i < j =>
                /\ pii_items[i].start <= pii_items[j].start
                /\ pii_items[i].start = pii_items[j].start =>
                       CatRank(pii_items[i].type) < CatRank(pii_items[j].type)

\* a scan whose result holds two matches with the same start
C1_Witness ==
    /\ dpc = "done"
    /\ \E i, j \in 1..Len(pii_items) :
           i < j /\ pii_items[i].start = pii_items[j].start

\* C2: no two returned matches of the same category overlap; every match of
\* every category is in the result, also when it overlaps a match of
\* another category.
C2_SameCategoryDisjoint ==
    dpc = "done" =>
        /\ \A i, j \in 1..Len(pii_items) :
              (i # j /\ pii_items[i].type = pii_items[j].type) =>
                  ~Overlap(pii_items[i], pii_items[j])
        /\ LET pooled == Pooled(text, phoneRun)
           IN  /\ Len(pii_items) = Len(pooled)
               /\ \A k \in 1..Len(pooled) :
                     \E j \in 1..Len(pii_items) : pii_items[j] = pooled[k]

\* a result with two matches of one category and two overlapping matches of
\* different regex categories
C2_Witness ==
    /\ dpc = "done"
    /\ \E i, j \in 1..Len(pii_items) :
           i # j /\ pii_items[i].type = pii_items[j].type
    /\ \E i, j \in 1..Len(pii_items) :
           /\ pii_items[i].type # pii_items[j].type
           /\ "phone" \notin {pii_items[i].type, pii_items[j].type}
           /\ Overlap(pii_items[i], pii_items[j])

NotPhone(x) == x.type # "phone"

\* C7: when the phone matcher raises, the result holds no phone match and
\* the matches of the other categories are those of a scan in which the
\* phone matcher does not fail.
C7_PhoneFailureIsolated ==
    (dpc = "done" /\ phoneRun.raised) =>
        /\ \A j \in 1..Len(pii_items) : pii_items[j].type # "phone"
        /\ SelectSeq(pii_items, NotPhone)
             = SelectSeq(detect_pii(text, NoRun), NotPhone)

-----------------------------------------------------------------------------
(* The redactor.  The working text is a sequence of [c, src]: the          *)
(* character, and the offset in the text read from the original it was     *)
(* copied from (-1 for a character of the sentinel).  Matching looks at c  *)
(* only; src is history that the code does not have.                       *)

Sentinel == "[REDACTED]"

Tag(s) == [i \in 1..Len(s) |-> [c |-> SubSeq(s, i, i), src |-> i - 1]]
Fresh(s) == [i \in 1..Len(s) |-> [c |-> SubSeq(s, i, i), src |-> -1]]

RECURSIVE Untag(_)
\* the string of a working text (by halves, to keep the evaluation shallow)
Untag(t) ==
    IF Len(t) = 0 THEN ""
    ELSE IF Len(t) = 1 THEN t[1].c
    ELSE LET h == Len(t) \div 2
         IN  Untag(SubSeq(t, 1, h)) \o Untag(SubSeq(t, h + 1, Len(t)))

Sources(t) == {t[i].src : i \in 1..Len(t)} \ {-1}

\* old occurs in t at 0-based offset p
OccursAt(t, old, p) ==
    /\ p >= 0 /\ p + Len(old) <= Len(t)
    /\ \A k \in 1..Len(old) : t[p + k].c = SubSeq(old, k, k)

\* old in t
Contains(t, old) == \E p \in 0..Len(t) : OccursAt(t, old, p)

\* the leftmost non-overlapping occurrences of a non-empty old in t from
\* offset pos on, each search resuming where the previous occurrence ended
RECURSIVE Occurrences(_, _, _)
Occurrences(t, old, pos) ==
    LET cand == {p \in pos..(Len(t) - Len(old)) : OccursAt(t, old, p)}
    IN  IF cand = {} THEN <<>>
        ELSE LET p == CHOOSE q \in cand : \A r \in cand : q <= r
             IN  <<p>> \o Occurrences(t, old, p + Len(old))

\* the concatenation of ss[lo..hi] (by halves, to keep the evaluation shallow)
RECURSIVE Join(_, _, _)
Join(ss, lo, hi) ==
    IF lo > hi THEN <<>>
    ELSE IF lo = hi THEN ss[lo]
    ELSE LET mid == (lo + hi) \div 2
         IN  Join(ss, lo, mid) \o Join(ss, mid + 1, hi)

\* t with the occurrences of old at the offsets occ replaced by new
Splice(t, old, new, occ) ==
    LET K == Len(occ)
        from(k) == IF k = 0 THEN 0 ELSE occ[k] + Len(old)
        to(k) == IF k = K THEN Len(t) ELSE occ[k + 1]
        \* piece 2k+1 is the text between occurrence k and k+1, piece 2k is new
        pieces == [j \in 1..(2 * K + 1) |->
                     IF j % 2 = 0 THEN Fresh(new)
                     ELSE SubSeq(t, from((j - 1) \div 2) + 1, to((j - 1) \div 2))]
    IN  Join(pieces, 1, 2 * K + 1)

\* where str.replace finds old: an empty old matches before every character
\* and at the end
ReplaceSites(t, old) ==
    IF old = "" THEN [k \in 1..(Len(t) + 1) |-> k - 1]
    ELSE Occurrences(t, old, 0)

\* str.replace with count=1: only the first occurrence
str_replace_first(t, old, new) ==
    LET occ == ReplaceSites(t, old)
    IN  Splice(t, old, new, IF occ = <<>> THEN occ ELSE <<occ[1]>>)

\* str.replace(old, new)
str_replace(t, old, new) == Splice(t, old, new, ReplaceSites(t, old))

\* open(path, 'r').read(): text mode turns "\r\n" and "\r" into "\n"
RECURSIVE ReadText(_)
ReadText(s) ==
    IF s = "" THEN ""
    ELSE IF Len(s) >= 2 /\ SubSeq(s, 1, 2) = "\r\n"
         THEN "\n" \o ReadText(SubSeq(s, 3, Len(s)))
    ELSE IF SubSeq(s, 1, 1) = "\r" THEN "\n" \o ReadText(SubSeq(s, 2, Len(s)))
    ELSE SubSeq(s, 1, 1) \o ReadText(SubSeq(s, 2, Len(s)))

\* file.write(content) followed by a line end
WriteTextLn(s) == s \o "\n"

\* open(path, 'w').write(content): "\n" becomes os.linesep, which is "\n"
\* where UPLOAD_FOLDER = '/tmp/uploads' exists
WriteText(s) == s

\* lines 177-178: the loop over redaction_items
RECURSIVE RedactText(_, _)
RedactText(t, items) ==
    IF items = <<>> THEN t
    ELSE RedactText(str_replace(t, Head(items).text, Sentinel), Tail(items))

\* the loop of lines 165-167 leaving at the first literal found
RECURSIVE RedactParaBreak(_, _)
RedactParaBreak(t, items) ==
    IF items = <<>> THEN t
    ELSE IF Contains(t, Head(items).text)
         THEN str_replace(t, Head(items).text, Sentinel)
    ELSE RedactParaBreak(t, Tail(items))

\* lines 165-167: the loop over redaction_items for one paragraph
RECURSIVE RedactPara(_, _)
RedactPara(t, items) ==
    IF items = <<>> THEN t
    ELSE RedactPara(IF Contains(t, Head(items).text)
                    THEN str_replace(t, Head(items).text, Sentinel)
                    ELSE t,
                    Tail(items))

\* redact_txt: the working text written to output_path
redact_txt(file, items) == RedactText(Tag(ReadText(file.text)), items)

\* redact_docx: the working text of every paragraph, as saved
redact_docx(file, items) ==
    [i \in 1..Len(file.paragraphs) |-> RedactPara(Tag(file.paragraphs[i]), items)]

TxtFile(s) == [kind |-> "txt", text |-> s]
DocxFile(ps) == [kind |-> "docx", paragraphs |-> ps]

-----------------------------------------------------------------------------
(* The redactor's inputs                                                   *)

MaxTextLen == 3
MaxItems == 2
MaxBlocks == 2

RECURSIVE Strings(_)
\* the strings over {a, b} of length at most n
Strings(n) ==
    IF n = 0 THEN {""}
    ELSE LET shorter == Strings(n - 1)
         IN  shorter \cup {t \o c : t \in shorter, c \in {"a", "b"}}

FileTexts == Strings(MaxTextLen) \cup {"Email: a@b.com", "ab\r\na\rb"}

BlockTexts == {"ab", "aaa", "Email: a@b.com", "No PII here"}

Literals == {"a", "aa", "ab", "D", "a@b.com"}

RECURSIVE Lists(_, _)
\* the sequences over S of length at most n
Lists(S, n) ==
    IF n = 0 THEN {<<>>}
    ELSE LET shorter == Lists(S, n - 1)
         IN  shorter \cup {Append(q, x) : q \in shorter, x \in S}

\* every list of at most MaxItems of the literals, and the list of the empty
\* literal alone
ItemLists == Lists({[text |-> l] : l \in Literals}, MaxItems) \cup {<<[text |-> ""]>>}

Files ==
    {TxtFile(s) : s \in FileTexts}
        \cup {DocxFile(ps) : ps \in Lists(BlockTexts, MaxBlocks)}

RedactInit ==
    /\ content \in Files
    /\ redaction_items \in ItemLists
    /\ output = <<>>
    /\ kept = {}
    /\ rpc = "call"
    /\ text = "" /\ phoneRun = NoRun /\ pii_items = <<>> /\ dpc = "idle"
    /\ uploads = <<>> /\ processed = <<>> /\ reqs = 0 /\ last = <<>>

\* one call redact_txt(file_path, redaction_items, output_path)
RedactTxt ==
    /\ rpc = "call"
    /\ content.kind = "txt"
    /\ LET t == redact_txt(content, redaction_items)
       IN  /\ output' = TxtFile(WriteText(Untag(t)))
           /\ kept' = Sources(t)
    /\ rpc' = "txt"
    /\ UNCHANGED <<content, redaction_items>>
    /\ UNCHANGED detectVars
    /\ UNCHANGED serverVars

\* one call redact_docx(file_path, redaction_items, output_path)
RedactDocx ==
    /\ rpc = "call"
    /\ content.kind = "docx"
    /\ LET ts == redact_docx(content, redaction_items)
       IN  /\ output' = DocxFile([i \in 1..Len(ts) |-> Untag(ts[i])])
           /\ kept' = [i \in 1..Len(ts) |-> Sources(ts[i])]
    /\ rpc' = "docx"
    /\ UNCHANGED <<content, redaction_items>>
    /\ UNCHANGED detectVars
    /\ UNCHANGED serverVars

RedactNext == RedactTxt \/ RedactDocx

SpecRedact == RedactInit /\ [][RedactNext]_vars

-----------------------------------------------------------------------------
(* Claims about the redactor                                               *)

\* the offsets at which l occurs in the string w
AllOccurrences(w, l) ==
    {p \in 0..(Len(w) - Len(l)) : Slice(w, p, p + Len(l)) = l}

IsSubstring(l, w) == AllOccurrences(w, l) # {}

\* the leftmost non-overlapping occurrences of l in w: an occurrence counts
\* unless an occurrence that counts starts before it and covers its start
LeftmostOccurrences(w, l) ==
    LET occ == AllOccurrences(w, l)
        counts[q \in 0..Len(w)] ==
            /\ q \in occ
            /\ \A p \in Max0(q - Len(l) + 1)..(q - 1) : ~counts[p]
    IN  {q \in occ : counts[q]}

\* w2 is w with every leftmost non-overlapping occurrence of l replaced by
\* the sentinel, and nothing else changed
IsReplaceAll(w, l, w2) ==
    LET P == LeftmostOccurrences(w, l)
        d == Len(Sentinel) - Len(l)
        before(q) == Cardinality({p \in P : p < q})
        upto(q) == Cardinality({p \in P : p <= q})
        covered(q) == \E p \in P : p <= q /\ q < p + Len(l)
    IN  /\ Len(w2) = Len(w) + Cardinality(P) * d
        /\ \A p \in P :
              Slice(w2, p + before(p) * d, p + before(p) * d + Len(Sentinel)) = Sentinel
        /\ \A q \in 0..(Len(w) - 1) :
              ~covered(q) => Chr(w2, q + upto(q) * d) = Chr(w, q)

Literal(k) == redaction_items[k].text

\* the text read from the original by redact_txt
OriginalText == ReadText(content.text)

\* the working text of redact_txt after its first k literals
WorkText(k) == Untag(RedactText(Tag(OriginalText), SubSeq(redaction_items, 1, k)))

\* the working text of paragraph i after redact_docx's first k literals
WorkPara(i, k) ==
    Untag(RedactPara(Tag(content.paragraphs[i]), SubSeq(redaction_items, 1, k)))

\* C3: for every listed non-empty literal and every leftmost non-overlapping
\* occurrence of it in the original text (in the original paragraph, for a
\* structured document), no character of that occurrence is carried into the
\* output.
C3_EveryOccurrenceRemoved ==
    /\ rpc = "txt" =>
          \A k \in 1..Len(redaction_items) :
              Literal(k) # "" =>
                  \A p \in LeftmostOccurrences(OriginalText, Literal(k)) :
                      \A q \in p..(p + Len(Literal(k)) - 1) : q \notin kept
    /\ rpc = "docx" =>
          \A i \in 1..Len(content.paragraphs) :
              \A k \in 1..Len(redaction_items) :
                  Literal(k) # "" =>
                      \A p \in LeftmostOccurrences(content.paragraphs[i], Literal(k)) :
                          \A q \in p..(p + Len(Literal(k)) - 1) : q \notin kept[i]

\* C4: redact_txt writes the left-to-right fold of replace-all: each literal
\* in turn has its leftmost non-overlapping occurrences in the current
\* working text replaced by the sentinel; "aaa" with <<"aa">> gives
\* "[REDACTED]a".
C4_SequentialReplaceAll ==
    rpc = "txt" =>
        /\ WorkText(0) = OriginalText
        /\ \A k \in 1..Len(redaction_items) :
              IsReplaceAll(WorkText(k - 1), Literal(k), WorkText(k))
        /\ output.text = WorkText(Len(redaction_items))
        /\ (content.text = "aaa" /\ redaction_items = <<[text |-> "aa"]>>)
              => output.text = "[REDACTED]a"

\* a second literal that is absent from the original and found in the
\* sentinel the first literal put there
C4_Witness ==
    /\ rpc = "txt"
    /\ Len(redaction_items) = 2
    /\ ~IsSubstring(Literal(2), OriginalText)
    /\ IsSubstring(Literal(2), WorkText(1))
    /\ output.text # WorkText(1)

NothingMatches ==
    \A k \in 1..Len(redaction_items) :
        IF content.kind = "txt" THEN ~IsSubstring(Literal(k), OriginalText)
        ELSE \A i \in 1..Len(content.paragraphs) :
                ~IsSubstring(Literal(k), content.paragraphs[i])

\* C6: with an empty literal list, or with literals that are all absent from
\* the content, the redactor completes and writes the content it read.
C6_NoMatchNoChange ==
    (rpc \in {"txt", "docx"} /\ NothingMatches) =>
        /\ output.kind = content.kind
        /\ content.kind = "txt" => output.text = OriginalText
        /\ content.kind = "docx" => output.paragraphs = content.paragraphs

\* a non-empty literal list of which nothing occurs in a non-empty text
C6_Witness ==
    /\ rpc = "txt"
    /\ NothingMatches
    /\ redaction_items # <<>>
    /\ content.text # ""

-----------------------------------------------------------------------------
(* The request handlers.  UPLOAD_FOLDER and PROCESSED_FOLDER are maps from *)
(* file name to file; a file is TxtFile(text) or DocxFile(paragraphs).     *)

MaxRequests == 3

ALLOWED_EXTENSIONS == {"txt", "docx"}

NoFiles == <<>>

\* s.lower()
str_lower(s) ==
    Concat([i \in 1..Len(s) |->
              LET c == SubSeq(s, i, i)
              IN  IF c \in Upper THEN SwapCase(c, 1) ELSE c])

\* the offsets (1-based) of the dots of s
Dots(s) == {i \in 1..Len(s) : SubSeq(s, i, i) = "."}

LastDot(s) == CHOOSE i \in Dots(s) : \A j \in Dots(s) : j <= i

\* s.rsplit('.', 1)[1], for an s that holds a dot
AfterLastDot(s) == SubSeq(s, LastDot(s) + 1, Len(s))

\* f.startswith(prefix)
StartsWith(f, prefix) ==
    Len(prefix) <= Len(f) /\ SubSeq(f, 1, Len(prefix)) = prefix

\* line 23-24
allowed_file(filename) ==
    Dots(filename) # {} /\ str_lower(AfterLastDot(filename)) \in ALLOWED_EXTENSIONS

\* s.strip("._")
RECURSIVE StripDots(_)
StripDots(s) ==
    IF s = "" THEN s
    ELSE IF SubSeq(s, 1, 1) \in {".", "_"} THEN StripDots(SubSeq(s, 2, Len(s)))
    ELSE IF SubSeq(s, Len(s), Len(s)) \in {".", "_"}
         THEN StripDots(SubSeq(s, 1, Len(s) - 1))
    ELSE s

\* werkzeug's secure_filename on a name without white space: the characters
\* outside [A-Za-z0-9_.-] are dropped, then leading and trailing "." and "_"
secure_filename(name) ==
    StripDots(Concat([i \in 1..Len(name) |->
                        LET c == SubSeq(name, i, i)
                        IN  IF c \in Alnum \cup {"_", ".", "-"} THEN c ELSE ""]))

\* '\n'.join(paragraphs)
RECURSIVE JoinLines(_)
JoinLines(ps) ==
    IF ps = <<>> THEN ""
    ELSE IF Len(ps) = 1 THEN ps[1]
    ELSE ps[1] \o "\n" \o JoinLines(Tail(ps))

\* process_txt
process_txt(file, run) ==
    LET text_content == ReadText(file.text)
    IN  [text |-> text_content, pii_items |-> detect_pii(text_content, run)]

\* process_docx
process_docx(file, run) ==
    LET text_content == JoinLines(file.paragraphs)
    IN  [text |-> text_content, pii_items |-> detect_pii(text_content, run),
         paragraphs |-> file.paragraphs]

\* uuid.uuid4(): identifiers of one length; a new one differs from all before
UUIDs == {"aa", "ab", "ba"}

FileNames == {"", "a.txt", "b.DOCX", "c.pdf", ".txt"}

UploadBodies == {TxtFile("a@b.com"), DocxFile(<<"a@b.com", "ab">>)}

BodyText(file) ==
    IF file.kind = "txt" THEN ReadText(file.text) ELSE JoinLines(file.paragraphs)

Store(folder, name, file) ==
    [n \in DOMAIN folder \cup {name} |-> IF n = name THEN file ELSE folder[n]]

Respond(op, status, body) == [op |-> op, status |-> status, body |-> body]

\* POST /upload
Upload ==
    /\ reqs < MaxRequests
    /\ reqs' = reqs + 1
    /\ UNCHANGED processed
    /\ UNCHANGED detectVars
    /\ UNCHANGED redactVars
    /\ \E hasFile \in BOOLEAN, name \in FileNames, file \in UploadBodies,
          file_id \in UUIDs :
       \E run \in PhoneRuns(BodyText(file)) :
          IF ~hasFile
          THEN /\ last' = Respond("upload", 400, [error |-> "No file provided"])
               /\ UNCHANGED uploads
          ELSE IF name = ""
          THEN /\ last' = Respond("upload", 400, [error |-> "No file selected"])
               /\ UNCHANGED uploads
          ELSE IF ~allowed_file(name)
          THEN /\ last' = Respond("upload", 400, [error |-> "File type not supported"])
               /\ UNCHANGED uploads
          ELSE LET filename == secure_filename(name) IN
               IF Dots(filename) = {}
               THEN \* line 205: rsplit(...)[1] raises IndexError
                    /\ last' = Respond("upload", 500, [error |-> "Processing failed"])
                    /\ UNCHANGED uploads
               ELSE LET file_extension == str_lower(AfterLastDot(filename))
                        stored_filename == file_id \o "." \o file_extension
                    IN  \* uuid4: the new identifier is not one in use
                        /\ \A n \in DOMAIN uploads : ~StartsWith(n, file_id \o ".")
                        /\ uploads' = Store(uploads, stored_filename, file)
                        /\ IF file.kind # file_extension
                           THEN \* the file is not what its extension says:
                                \* Document() or the UTF-8 read raises
                                last' = Respond("upload", 500,
                                                [error |-> "Processing failed"])
                           ELSE last' = Respond("upload", 200,
                                  [file_id |-> file_id, filename |-> filename,
                                   document_type |-> file_extension,
                                   analysis |-> IF file_extension = "docx"
                                                THEN process_docx(file, run)
                                                ELSE process_txt(file, run)])

\* the response to a redact request; data is the request, read the names
\* of the uploads the handler passed to the redactor
RedactResponse(data, status, body, read) ==
    [op |-> "redact", data |-> data, status |-> status, body |-> body, read |-> read]

\* the redact requests: no JSON body, or a body with some of the fields
RequestIds == UUIDs \cup {"", "a", "zz"}

RedactionLists == {<<>>, <<[text |-> "a@b.com"]>>, <<[type |-> "email"]>>}

DocumentTypes == {"txt", "docx", "pdf"}

RedactRequests ==
    {<<>>}
      \cup {[file_id |-> f] : f \in RequestIds}
      \cup {[redactions |-> r] : r \in RedactionLists}
      \cup {[file_id |-> f, redactions |-> r] : f \in RequestIds, r \in RedactionLists}
      \cup {[file_id |-> f, redactions |-> r, document_type |-> d] :
              f \in RequestIds, r \in RedactionLists, d \in DocumentTypes}

HasText(item) == "text" \in DOMAIN item

\* POST /redact
Redact ==
    /\ reqs < MaxRequests
    /\ reqs' = reqs + 1
    /\ UNCHANGED uploads
    /\ UNCHANGED detectVars
    /\ UNCHANGED redactVars
    /\ \E data \in RedactRequests :
          IF DOMAIN data = {} \/ "file_id" \notin DOMAIN data
                \/ "redactions" \notin DOMAIN data
          THEN /\ last' = RedactResponse(data, 400, [error |-> "Missing required data"], {})
               /\ UNCHANGED processed
          ELSE
          LET file_id == data.file_id
              redactions == data.redactions
              document_type == IF "document_type" \in DOMAIN data
                               THEN data.document_type ELSE "txt"
              original_files == {f \in DOMAIN uploads : StartsWith(f, file_id)}
              output_filename == file_id \o "_redacted." \o document_type
              success ==
                  [success |-> TRUE, output_file |-> output_filename,
                   download_url |-> "/api/redaction/download/" \o output_filename]
              failed(read) ==
                  /\ last' = RedactResponse(data, 500, [error |-> "Redaction failed"], read)
                  /\ UNCHANGED processed
              written(file, read) ==
                  /\ processed' = Store(processed, output_filename,
                                        [by |-> reqs + 1, file |-> file])
                  /\ last' = RedactResponse(data, 200, success, read)
          IN  IF original_files = {}
              THEN /\ last' = RedactResponse(data, 404,
                                             [error |-> "Original file not found"], {})
                   /\ UNCHANGED processed
              ELSE \* os.listdir gives the names in no particular order
                   \E original_file \in original_files :
                      LET original == uploads[original_file]
                          read == {original_file}
                      IN  IF document_type = "docx"
                          THEN IF original.kind # "docx"
                                  \/ (original.paragraphs # <<>>
                                        /\ \E k \in 1..Len(redactions) :
                                              ~HasText(redactions[k]))
                               THEN failed(read)
                               ELSE written(
                                      DocxFile([i \in 1..Len(original.paragraphs) |->
                                          Untag(redact_docx(original, redactions)[i])]),
                                      read)
                          ELSE IF document_type = "txt"
                          THEN IF original.kind # "txt"
                                  \/ \E k \in 1..Len(redactions) : ~HasText(redactions[k])
                               THEN failed(read)
                               ELSE written(
                                      TxtFile(WriteText(Untag(redact_txt(original, redactions)))),
                                      read)
                          ELSE \* neither branch of lines 257-260 runs
                               /\ last' = RedactResponse(data, 200, success, {})
                               /\ UNCHANGED processed

DownloadNames == {"aa_redacted.txt", "aa_redacted.pdf", "a_redacted.txt", "_redacted.txt"}

\* GET /download/<filename>
Download ==
    /\ reqs < MaxRequests
    /\ reqs' = reqs + 1
    /\ UNCHANGED <<uploads, processed>>
    /\ UNCHANGED detectVars
    /\ UNCHANGED redactVars
    /\ \E filename \in DownloadNames :
          IF filename \in DOMAIN processed
          THEN last' = Respond("download", 200, processed[filename].file)
          ELSE last' = Respond("download", 404, [error |-> "Download failed"])

Init ==
    /\ uploads = NoFiles
    /\ processed = NoFiles
    /\ reqs = 0
    /\ last = Respond("none", 0, <<>>)
    /\ text = "" /\ phoneRun = NoRun /\ pii_items = <<>> /\ dpc = "idle"
    /\ content = <<>> /\ redaction_items = <<>> /\ output = <<>> /\ kept = {}
    /\ rpc = "idle"

Next == Upload \/ Redact \/ Download

Spec == Init /\ [][Next]_vars

-----------------------------------------------------------------------------
(* Claims about the request handlers                                       *)

\* the last request was a redact request that wrote no processed file
WroteNothing == \A n \in DOMAIN processed : processed[n].by # reqs

Malformed(data) ==
    DOMAIN data = {} \/ "file_id" \notin DOMAIN data \/ "redactions" \notin DOMAIN data

\* the names under which an upload with identifier id is stored
StoredUnder(id) == {id \o "." \o ext : ext \in ALLOWED_EXTENSIONS}

\* the request names a stored upload exactly
NamesAnUpload(data) == StoredUnder(data.file_id) \cap DOMAIN uploads # {}

\* C8: a redact request without a body, without file_id, without redactions
\* or with an empty redactions list is answered at once with an input error
\* (400), reads no original and writes no output.  The empty list is taken
\* with a file_id that names a stored upload, so that a not-found answer is
\* not what refutes the claim.
C8_InputErrorNoProcessing ==
    (/\ last.op = "redact"
     /\ \/ Malformed(last.data)
        \/ (last.data.redactions = <<>> /\ NamesAnUpload(last.data)))
        => /\ last.status = 400
           /\ last.read = {}
           /\ WroteNothing

\* C9: a redact request with identifier X reads only the upload stored under
\* exactly X, and is answered not-found, with no output written, when there
\* is no such upload.  Taken for the requests that select something and leave
\* document_type to its default, so that the cases of C8 and C10 are
\* not what refutes the claim.
C9_KeyedByIdentifier ==
    (/\ last.op = "redact"
     /\ ~Malformed(last.data)
     /\ last.data.redactions # <<>>
     /\ "document_type" \notin DOMAIN last.data)
        => /\ last.read \subseteq StoredUnder(last.data.file_id)
           /\ ~NamesAnUpload(last.data) => (last.status = 404 /\ WroteNothing)

\* C10: a redact request answered with success: true has itself written the
\* file it names into the processed folder, whatever document_type it sent.
\* Taken for the requests that name a stored upload exactly and select
\* something, so that the cases of C8 and C9 are not what refutes the claim.
C10_SuccessMeansWritten ==
    (/\ last.op = "redact"
     /\ last.status = 200
     /\ NamesAnUpload(last.data)
     /\ last.data.redactions # <<>>)
        => /\ last.body.output_file \in DOMAIN processed
           /\ processed[last.body.output_file].by = reqs

=============================================================================
